---- MODULE Spec2Model ----
(***************************************************************************)
(* Labour-market simulation of py_sim: the classes Actor, Environment,     *)
(* Worker, Employer and World and the driver run_simulation_with_plot, in  *)
(* the two variants the repository holds (hwang.py and test.py).           *)
(*                                                                         *)
(* Number representation.  The code computes in floats; the model keeps    *)
(* exact integers in these units:                                          *)
(*   money (wage, profit, production)   won, fractions of a won truncated  *)
(*   competition                        tenths        (0.7 is 7)           *)
(*   stress                             tenths of competition * 10, i.e.   *)
(*                                      whole stress points                *)
(*   efficiency                         hundredths    (0.6 is 60)          *)
(*   distance                           hundredths    (1.0 is 100)         *)
(*   demand                             millionths    (900 is 900000000)   *)
(*   deduction_rate                     hundredths    (0.05 is 5)          *)
(***************************************************************************)
EXTENDS Integers, Sequences, FiniteSets, TLC

VARIABLES
    program,        \* which file is being run: "hwang" or "test"
    pc,             \* position of the driver, or the class under direct call
    cfg,            \* the arguments of run_simulation_with_plot
    population,     \* world.population
    environments,   \* world.environments (the Environment objects)
    actors,         \* world.actors (the Actor objects, in registration order)
    workers,        \* the driver's local list `workers` (indices into actors)
    employer,       \* the driver's local `employer` (index into actors, 0 = unset)
    i,              \* loop variable of `for i in range(sim_count)`
    w,              \* position in `for worker in workers` (1-based)
    attempt,        \* loop variable of `for attempt in range(worker.max_attempts)`
    sim_profit, wage_sum, wage_count,
    total_profits, average_wages,
    results,        \* the per-attempt entries appended to `results`
    exception,      \* the exception raised during the run, "none" if none
    updates,        \* number of World.update() calls completed
    last_call,      \* the latest negotiate_wage call: receiver, counter before, return value
    profit_call,    \* the latest direct calculate_profit call: arguments and return value
    calls           \* number of direct calls made on the class under call

vars == <<program, pc, cfg, population, environments, actors, workers, employer,
          i, w, attempt, sim_profit, wage_sum, wage_count, total_profits,
          average_wages, results, exception, updates, last_call, profit_call, calls>>

-----------------------------------------------------------------------------
(* Bounds of the model *)

MaxTicks == 6        \* sim_count is drawn from -1..MaxTicks
MaxWorkers == 2      \* worker_count is drawn from 0..MaxWorkers
MaxCalls == 2        \* direct calls made on a class (max_attempts more on a Worker)

-----------------------------------------------------------------------------
(* Program constants *)

max_attempts == 5                  \* self.max_attempts = 5
deduction_rate == 5                \* self.deduction_rate = 0.05, in hundredths
StressPerNegotiation == 5          \* stress + 5
CompetitionRise == 1               \* competition += 0.1, in tenths
StressThreshold == 7               \* comp > 0.7, in tenths
StressFactor == 10                 \* comp * 10
DistanceWage == 10                 \* distance * 1000, distance in hundredths
AgeLimit == 30                     \* age < 30
AgeWage == 1000                    \* (age - 30) * 1000
EfficiencyFloor == 50              \* max(0.5, ...), in hundredths
EfficiencyFull == 100              \* "efficiency": 1.0, in hundredths
EfficiencyThreshold == 60          \* efficiency >= 0.6, in hundredths
ProductionPerSize == 1000000       \* property_size * 1_000_000
PropertySize == 1000               \* Employer("employer1", property_size=1000)
ProductivityPerWorker == 3500000   \* 3_500_000 * (1 + comp)
SupplyPerWorker == 1000            \* employed_count * 1000

-----------------------------------------------------------------------------
(* Python dictionaries and lists *)

None == "None"

Get(d, key, default) == IF key \in DOMAIN d THEN d[key] ELSE default

Put(d, key, value) ==
    [k \in (DOMAIN d) \cup {key} |-> IF k = key THEN value ELSE d[k]]

Range(s) == {s[k] : k \in DOMAIN s}

\* int(a / b) for a >= 0 and b # 0: Python's int() truncates toward zero
TruncDiv(a, b) == IF b > 0 THEN a \div b ELSE -(a \div (-b))


-----------------------------------------------------------------------------
(* class Actor *)

\* an effect that adds 5 for every "negotiate" the log of self holds
AffectTargetPerTag(as, self, target) ==
    LET tags == Cardinality({k \in DOMAIN as[self].actions :
                                as[self].actions[k] = "negotiate"})
    IN  IF tags > 0
        THEN [as EXCEPT ![target].properties =
                  Put(@, "stress", Get(@, "stress", 0) + StressPerNegotiation * tags)]
        ELSE as

\* Actor._affect_target: as the sequence of all actors, self and target indices
_affect_target(as, self, target) ==
    IF "negotiate" \in Range(as[self].actions)
    THEN [as EXCEPT ![target].properties =
              Put(@, "stress", Get(@, "stress", 0) + StressPerNegotiation)]
    ELSE as

\* Actor.perform_action; target = 0 stands for target=None
perform_action(as, self, action_type, target) ==
    LET logged == [as EXCEPT ![self].actions = Append(@, action_type)]
    IN  IF target # 0 THEN _affect_target(logged, self, target) ELSE logged

-----------------------------------------------------------------------------
(* class Environment *)

NewEnvironment(id, properties) ==
    [id |-> id, properties |-> properties, manifestations |-> <<>>]

\* a spillover that lowers the demand of the manifesting Environment itself
AffectOwnDemand(envs, self, target) ==
    IF "competition_rise" \in Range(envs[self].manifestations)
    THEN [envs EXCEPT ![self].properties["demand"] = (@ \div 100) * 95]
    ELSE envs

\* Environment._affect_environment: demand *= 0.95
_affect_environment(envs, self, target) ==
    IF "competition_rise" \in Range(envs[self].manifestations)
    THEN [envs EXCEPT ![target].properties["demand"] = (@ \div 100) * 95]
    ELSE envs

\* Environment.manifest; target = 0 stands for target=None
manifest(envs, self, manifestation_type, target) ==
    LET logged == [envs EXCEPT ![self].manifestations = Append(@, manifestation_type)]
        risen  == IF manifestation_type = "competition_rise"
                  THEN [logged EXCEPT ![self].properties["competition"] = @ + CompetitionRise]
                  ELSE logged
    IN  IF target # 0 THEN _affect_environment(risen, self, target) ELSE risen

\* a stress effect that sets in at the threshold itself: comp >= 0.7
AffectActorInclusive(env, actor) ==
    LET comp == Get(env.properties, "competition", 0)
    IN  IF comp >= StressThreshold
        THEN [actor EXCEPT !.properties =
                  Put(@, "stress", Get(@, "stress", 0) + (comp * StressFactor) \div 10)]
        ELSE actor

\* a stress effect that halves the stress at a competition of 0.7 or less
AffectActorRelieving(env, actor) ==
    LET comp == Get(env.properties, "competition", 0)
    IN  IF comp > StressThreshold
        THEN [actor EXCEPT !.properties =
                  Put(@, "stress", Get(@, "stress", 0) + (comp * StressFactor) \div 10)]
        ELSE [actor EXCEPT !.properties = Put(@, "stress", Get(@, "stress", 0) \div 2)]

\* Environment.affect_actor: the actor as it is left by the call
affect_actor(env, actor) ==
    LET comp == Get(env.properties, "competition", 0)
    IN  IF comp > StressThreshold
        THEN [actor EXCEPT !.properties =
                  Put(@, "stress", Get(@, "stress", 0) + (comp * StressFactor) \div 10)]
        ELSE actor

-----------------------------------------------------------------------------
(* class Worker *)

NewWorker(id, age, distance, previous_wage) ==
    [class |-> "Worker", id |-> id,
     properties |-> [age |-> age, distance |-> distance,
                     previous_wage |-> previous_wage, employed |-> FALSE,
                     stress |-> 0, efficiency |-> EfficiencyFull],
     actions |-> <<>>, space |-> None, work |-> None,
     negotiation_attempts |-> 0,
     max_attempts |-> max_attempts,
     deduction_rate |-> deduction_rate]

\* Worker._calculate_age_factor
_calculate_age_factor(self) ==
    LET age == self.properties["age"]
    IN  IF age < AgeLimit THEN (age - AgeLimit) * AgeWage ELSE 0

\* math.log(population + 1) * 1000, in whole won, for the populations of the model
LogTimes1000(n) ==
    CASE n = 0    -> 0
      [] n = 1000 -> 6908

\* a deduction that is already applied to the first proposal
DiscountedFromFirst(wage, rate, attempts) ==
    IF wage >= 0 THEN (wage * (100 - rate * (attempts + 1))) \div 100
    ELSE -(((-wage) * (100 - rate * (attempts + 1))) \div 100)

\* wage *= 1 - rate * attempts, with rate in hundredths
Discounted(wage, rate, attempts) ==
    IF wage >= 0 THEN (wage * (100 - rate * attempts)) \div 100
    ELSE -(((-wage) * (100 - rate * attempts)) \div 100)

\* negotiate_wage without its test of the counter: every call proposes and counts
NegotiateWageUnguarded(self, n) ==
    LET base == self.properties["previous_wage"]
        distance_factor == self.properties["distance"] * DistanceWage
        age_factor == _calculate_age_factor(self)
        population_factor == LogTimes1000(n)
        wage == base + distance_factor + age_factor + population_factor
    IN  [ret  |-> Discounted(wage, self.deduction_rate, self.negotiation_attempts),
         self |-> [self EXCEPT !.negotiation_attempts = @ + 1]]

\* Worker.negotiate_wage of hwang.py: the value returned and the worker as left
negotiate_wage(self, n) ==
    IF self.negotiation_attempts >= self.max_attempts
    THEN [ret |-> 0, self |-> self]
    ELSE LET base == self.properties["previous_wage"]
             distance_factor == self.properties["distance"] * DistanceWage
             age_factor == _calculate_age_factor(self)
             population_factor == LogTimes1000(n)
             wage == base + distance_factor + age_factor + population_factor
         IN  [ret  |-> Discounted(wage, self.deduction_rate, self.negotiation_attempts),
              self |-> [self EXCEPT !.negotiation_attempts = @ + 1]]

\* The lambda test.py assigns to Worker.negotiate_wage at module scope:
\* an expression, so it assigns nothing and the counter stays as it is
negotiate_wage_lambda(self) ==
    IF self.negotiation_attempts < self.max_attempts
    THEN [ret  |-> Discounted(self.properties["previous_wage"]
                                + self.properties["distance"] * DistanceWage
                                + (IF self.properties["age"] < AgeLimit
                                   THEN (self.properties["age"] - AgeLimit) * AgeWage
                                   ELSE 0),
                              self.deduction_rate, self.negotiation_attempts),
          self |-> self]
    ELSE [ret |-> 0, self |-> self]

\* both files running the counting negotiate_wage of the class body
NegotiateWageCounting(prog, self, n) == negotiate_wage(self, n)

\* The negotiate_wage in effect in each file
NegotiateWage(prog, self, n) ==
    IF prog = "test" THEN negotiate_wage_lambda(self) ELSE negotiate_wage(self, n)

-----------------------------------------------------------------------------
(* class Employer *)

NewEmployer(id, property_size) ==
    [class |-> "Employer", id |-> id,
     properties |-> [property_size |-> property_size, production |-> 0, profit |-> 0],
     actions |-> <<>>, space |-> None, work |-> None, workers |-> <<>>]

\* Employer.calculate_optimal_employment raises ZeroDivisionError on wage 0
DividesByZero(wage) == wage = 0

\* Employer.calculate_optimal_employment, for wage # 0
calculate_optimal_employment(self, wage) ==
    LET base_production == self.properties["property_size"] * ProductionPerSize
        labor_cost == (base_production \div 10) * 4
        optimal == TruncDiv(labor_cost, wage)
    IN  IF optimal > 1 THEN optimal ELSE 1

\* a profit with a cost that does not grow with the headcount
ProfitWithFixedCost(envs, wage, num_workers) ==
    LET comp == envs[1].properties["competition"]
        prod_per_worker == (ProductivityPerWorker \div 10) * (10 + comp)
        production == prod_per_worker * num_workers
        cost == wage * num_workers + production \div 10 + ProductivityPerWorker
    IN  production - cost

\* a profit computed from the competition of the last Environment of the World
ProfitFromLastEnvironment(envs, wage, num_workers) ==
    LET comp == envs[Len(envs)].properties["competition"]
        prod_per_worker == (ProductivityPerWorker \div 10) * (10 + comp)
        production == prod_per_worker * num_workers
        cost == wage * num_workers + production \div 10
    IN  production - cost

\* Employer.calculate_profit; envs is self.space.environments
calculate_profit(envs, wage, num_workers) ==
    LET comp == envs[1].properties["competition"]
        prod_per_worker == (ProductivityPerWorker \div 10) * (10 + comp)
        production == prod_per_worker * num_workers
        cost == wage * num_workers + production \div 10
    IN  production - cost

-----------------------------------------------------------------------------
(* class World *)

RECURSIVE AffectByAll(_, _)
\* for env in self.environments: env.affect_actor(actor), for one actor
AffectByAll(envs, actor) ==
    IF envs = <<>> THEN actor
    ELSE AffectByAll(Tail(envs), affect_actor(Head(envs), actor))

\* the recomputation without its lower limit: efficiency = 1.0 - 0.01 * stress
RecomputedUnclamped(actor) ==
    IF "stress" \in DOMAIN actor.properties /\ "efficiency" \in DOMAIN actor.properties
    THEN [actor EXCEPT !.properties["efficiency"] =
              EfficiencyFull - actor.properties["stress"]]
    ELSE actor

\* efficiency = max(0.5, 1.0 - 0.01 * stress) for actors holding both keys
Recomputed(actor) ==
    IF "stress" \in DOMAIN actor.properties /\ "efficiency" \in DOMAIN actor.properties
    THEN LET e == EfficiencyFull - actor.properties["stress"]
         IN  [actor EXCEPT !.properties["efficiency"] =
                  IF e > EfficiencyFloor THEN e ELSE EfficiencyFloor]
    ELSE actor

EmployedCount(as) ==
    Cardinality({a \in DOMAIN as :
                    as[a].class = "Worker" /\ Get(as[a].properties, "employed", FALSE)})

RECURSIVE Feedback(_, _, _)
\* third loop of World.update in test.py: once for every Employer among the actors
Feedback(envs, as, count) ==
    IF count = 0 \/ envs = <<>> THEN envs
    ELSE Feedback([envs EXCEPT ![1].properties["supply"] =
                                   @ + EmployedCount(as) * SupplyPerWorker,
                               ![1].properties["demand"] = (@ \div 100) * 99],
                  as, count - 1)

\* World.update: the environments and actors as left by the call.
\* hwang.py's update ends after the efficiency loop; test.py's adds the feedback.
World_update(prog, envs, as) ==
    LET stressed == [a \in DOMAIN as |-> AffectByAll(envs, as[a])]
        rested   == [a \in DOMAIN as |-> Recomputed(stressed[a])]
        nEmployers == Cardinality({a \in DOMAIN as : as[a].class = "Employer"})
    IN  [environments |-> IF prog = "test" THEN Feedback(envs, rested, nEmployers)
                          ELSE envs,
         actors |-> rested]

\* World.add_actor
add_actor(as, actor) == Append(as, [actor EXCEPT !.space = "world"])

-----------------------------------------------------------------------------
(* Inputs of the model *)

Programs == {"hwang", "test"}
Competitions == {0, 5, 7}
Populations == {0, 1000}
InitialWages == {0, 9000, 3000000, 3500000, 4500000, 6000000}

\* An initial wage below this is run with population 0 only: with the
\* population term added the proposal is a small positive wage, whose headcount
\* times production per worker is beyond 32-bit integers.
SmallWage == 10000

\* (age, distance, previous_wage) values np.random may draw in test.py
Profiles ==
    { [age |-> 20, distance |-> 200, previous_wage |-> 8000],
      [age |-> 20, distance |-> 100, previous_wage |-> 8000],
      [age |-> 30, distance |-> 100, previous_wage |-> 3500000],
      [age |-> 25, distance |-> 500, previous_wage |-> 3000000],
      [age |-> 30, distance |-> 100, previous_wage |-> 3779000],
      [age |-> 30, distance |-> 100, previous_wage |-> 6000000],
      [age |-> 30, distance |-> 100, previous_wage |-> 7000000] }

\* np.random.randint(20, 60), round(np.random.uniform(1.0, 5.0), 2),
\* np.random.randint(int(initial_wage * 0.8), int(initial_wage * 1.2))
WorkerProfiles(initial_wage) ==
    { p \in Profiles :
        /\ 20 <= p.age /\ p.age < 60
        /\ 100 <= p.distance /\ p.distance <= 500
        /\ (initial_wage * 8) \div 10 <= p.previous_wage
        /\ p.previous_wage < (initial_wage * 12) \div 10 }

Configs(prog) ==
    { c \in [market_competition : Competitions, initial_wage : InitialWages,
             sim_count : (-1)..MaxTicks, initial_population : Populations,
             worker_count : 0..MaxWorkers] :
        /\ c.initial_wage < SmallWage => c.initial_population = 0
        /\ prog = "test" => /\ c.initial_population = 0
                            /\ c.worker_count > 0 => WorkerProfiles(c.initial_wage) # {} }

\* env1 and env2 as both drivers construct them
InitialEnvironments(market_competition) ==
    << NewEnvironment("market", [demand |-> 1000 * 1000000, supply |-> 800,
                                 competition |-> market_competition]),
       NewEnvironment("secondary", [demand |-> 900 * 1000000, supply |-> 850,
                                    competition |-> 3]) >>

WorkerId(j) == <<"worker", j + 1>>

RECURSIVE AddAll(_, _)
\* for worker in workers: world.add_actor(worker)
AddAll(as, new) ==
    IF new = <<>> THEN as ELSE AddAll(add_actor(as, Head(new)), Tail(new))

\* hwang.py: the workers created at the start of every iteration
FreshWorkers(c) ==
    [j \in 1..c.worker_count |->
        NewWorker(WorkerId(j - 1), 20 + (j - 1), 100 + 100 * (j - 1), c.initial_wage)]

-----------------------------------------------------------------------------
(* Initial states *)

\* hwang.py run_simulation_with_plot up to the loop: the world holds no actor
InitHwang ==
    /\ program = "hwang"
    /\ cfg \in Configs("hwang")
    /\ population = cfg.initial_population
    /\ environments = InitialEnvironments(cfg.market_competition)
    /\ actors = <<>>
    /\ workers = <<>>
    /\ employer = 0
    /\ pc = IF cfg.sim_count > 0 THEN "tick" ELSE "return"
    /\ calls = 0

\* test.py run_simulation_with_plot up to the loop: employer and workers registered
InitTest ==
    /\ program = "test"
    /\ cfg \in Configs("test")
    /\ population = 0
    /\ environments = InitialEnvironments(cfg.market_competition)
    /\ \E prof \in [1..cfg.worker_count -> WorkerProfiles(cfg.initial_wage)] :
          actors = AddAll(add_actor(<<>>, NewEmployer("employer1", PropertySize)),
                          [j \in 1..cfg.worker_count |->
                              NewWorker(WorkerId(j - 1), prof[j].age, prof[j].distance,
                                        prof[j].previous_wage)])
    /\ workers = [j \in 1..cfg.worker_count |-> j + 1]
    /\ employer = 1
    /\ pc = IF cfg.sim_count > 0 THEN "tick" ELSE "return"
    /\ calls = 0

\* the Worker of the world under direct call: the first worker hwang.py
\* creates, or one with attributes that test.py may draw
ClassWorkers(c) ==
    {FreshWorkers(c)[1]} \cup
    {NewWorker(WorkerId(0), p.age, p.distance, p.previous_wage) :
        p \in WorkerProfiles(c.initial_wage)}

\* The classes of either file under direct call: a world of the two
\* environments, one employer and one worker, and the class that is called
InitClass ==
    /\ program \in Programs
    /\ cfg \in { c \in Configs("hwang") : /\ c.sim_count = 0 /\ c.worker_count = 1
                                          /\ c.initial_wage \in {0, 3000000} }
    /\ population = cfg.initial_population
    /\ environments = InitialEnvironments(cfg.market_competition)
    /\ \E worker \in ClassWorkers(cfg) :
          actors = AddAll(add_actor(<<>>, NewEmployer("employer1", PropertySize)),
                          <<worker>>)
    /\ workers = <<2>>
    /\ employer = 1
    /\ pc \in {"Worker", "Environment", "Actor", "Employer"}
    /\ calls = 0

Init ==
    /\ (InitHwang \/ InitTest \/ InitClass)
    /\ i = 0 /\ w = 1 /\ attempt = 0
    /\ sim_profit = 0 /\ wage_sum = 0 /\ wage_count = 0
    /\ total_profits = <<>> /\ average_wages = <<>>
    /\ results = <<>>
    /\ exception = "none"
    /\ updates = 0
    /\ last_call = [self |-> 0, before |-> 0, ret |-> 0]
    /\ profit_call = [wage |-> 0, num_workers |-> 0, ret |-> 0]

-----------------------------------------------------------------------------
(* The driver run_simulation_with_plot *)

\* where the worker loop goes once the worker at position w - 1 is finished
AfterWorker(next, count) == IF next > count THEN "update" ELSE "negotiate"

\* the worker loop without the test of `employed`
SkipsNoWorker(prog, worker) == FALSE

\* test.py: `if worker.properties.get("employed"): continue`; hwang.py has no such test
SkipsWorker(prog, worker) ==
    prog = "test" /\ Get(worker.properties, "employed", FALSE)

\* an iteration that runs world.update() before its worker loop
StartTickUpdatingFirst ==
    /\ pc = "tick"
    /\ sim_profit' = 0 /\ wage_sum' = 0 /\ wage_count' = 0
    /\ IF program = "hwang"
       THEN LET n == Len(actors)
                updated == World_update(program, environments, actors).actors
            IN  /\ actors' = AddAll(add_actor(updated, NewEmployer("employer1", PropertySize)),
                                    FreshWorkers(cfg))
                /\ employer' = n + 1
                /\ workers' = [j \in 1..cfg.worker_count |-> n + 1 + j]
       ELSE /\ actors' = World_update(program, environments, actors).actors
            /\ UNCHANGED <<employer, workers>>
    /\ environments' = manifest(World_update(program, environments, actors).environments,
                                1, "competition_rise", 2)
    /\ updates' = updates + 1
    /\ w' = 1 /\ attempt' = 0
    /\ pc' = AfterWorker(1, Len(workers'))
    /\ UNCHANGED <<profit_call, program, cfg, population, i, total_profits, average_wages,
                   results, exception, last_call, calls>>

\* Start of one iteration of `for i in range(sim_count)`, up to the worker loop.
\* hwang.py creates and registers a new employer and new workers; test.py keeps
\* the ones registered before the loop.  Both then raise the competition.
StartTick ==
    /\ pc = "tick"
    /\ sim_profit' = 0 /\ wage_sum' = 0 /\ wage_count' = 0
    /\ IF program = "hwang"
       THEN LET n == Len(actors)
            IN  /\ actors' = AddAll(add_actor(actors, NewEmployer("employer1", PropertySize)),
                                    FreshWorkers(cfg))
                /\ employer' = n + 1
                /\ workers' = [j \in 1..cfg.worker_count |-> n + 1 + j]
       ELSE UNCHANGED <<actors, employer, workers>>
    /\ environments' = manifest(environments, 1, "competition_rise", 2)
    /\ w' = 1 /\ attempt' = 0
    /\ pc' = AfterWorker(1, Len(workers'))
    /\ UNCHANGED <<profit_call, program, cfg, population, i, total_profits, average_wages,
                   results, exception, updates, last_call, calls>>

\* test.py: an employed worker is passed over
SkipEmployed ==
    /\ pc = "negotiate"
    /\ SkipsWorker(program, actors[workers[w]])
    /\ w' = w + 1 /\ attempt' = 0
    /\ pc' = AfterWorker(w + 1, Len(workers))
    /\ UNCHANGED <<profit_call, program, cfg, population, environments, actors, workers, employer,
                   i, sim_profit, wage_sum, wage_count, total_profits, average_wages,
                   results, exception, updates, last_call, calls>>

\* an acceptance test on the profit alone in both files
AcceptsOnProfit(prog, profit, efficiency) == profit > 0

\* the acceptance test of each driver
Accepts(prog, profit, efficiency) ==
    IF prog = "test" THEN profit > 0 /\ efficiency >= EfficiencyThreshold
    ELSE profit > 0

\* a hire that gives the worker the employer's `work` for its space
HiredIntoWork(prog, as, worker, emp) ==
    [as EXCEPT ![worker].properties["employed"] = TRUE,
               ![worker].work = "production",
               ![worker].space = as[emp].work]

\* the worker as the driver leaves it on a hire
Hired(prog, as, worker, emp) ==
    [as EXCEPT ![worker].properties["employed"] = TRUE,
               ![worker].work = "production",
               ![worker].space = IF prog = "hwang" THEN as[emp].space ELSE @]

\* One iteration of `for attempt in range(worker.max_attempts)`
NegotiationAttempt ==
    /\ pc = "negotiate"
    /\ ~SkipsWorker(program, actors[workers[w]])
    /\ LET worker == workers[w]
           r == NegotiateWage(program, actors[worker], population)
           wage == r.ret
           proposed == [actors EXCEPT ![worker] = r.self]
       IN  /\ last_call' = [self |-> worker,
                            before |-> actors[worker].negotiation_attempts,
                            ret |-> wage]
           /\ IF DividesByZero(wage)
              THEN \* ZeroDivisionError: hwang.py catches it after the loop and
                   \* returns what it has; test.py lets it leave the function
                   /\ exception' = "ZeroDivisionError"
                   /\ actors' = proposed
                   /\ pc' = IF program = "hwang" THEN "return" ELSE "raised"
                   /\ UNCHANGED <<w, attempt, sim_profit, wage_sum, wage_count, results>>
              ELSE LET optimal_workers ==
                           calculate_optimal_employment(actors[employer], wage)
                       profit == IF program = "hwang"
                                 THEN calculate_profit(environments, wage, optimal_workers)
                                 ELSE calculate_profit(environments, wage, 1)
                       efficiency == Get(actors[worker].properties, "efficiency",
                                         EfficiencyFull)
                       accepted == Accepts(program, profit, efficiency)
                   IN  /\ results' = Append(results,
                               [worker |-> worker, id |-> actors[worker].id,
                                tick |-> i + 1, attempt |-> attempt + 1,
                                wage |-> wage, optimal_workers |-> optimal_workers,
                                profit |-> profit, efficiency |-> efficiency,
                                accepted |-> accepted])
                       /\ IF accepted
                          THEN /\ sim_profit' = sim_profit + profit
                               /\ wage_sum' = wage_sum + wage
                               /\ wage_count' = wage_count + 1
                               /\ actors' = Hired(program,
                                      perform_action(proposed, employer, "negotiate", worker),
                                      worker, employer)
                               /\ w' = w + 1 /\ attempt' = 0
                               /\ pc' = AfterWorker(w + 1, Len(workers))
                          ELSE /\ actors' = proposed
                               /\ UNCHANGED <<sim_profit, wage_sum, wage_count>>
                               /\ IF attempt + 1 < actors[worker].max_attempts
                                  THEN /\ attempt' = attempt + 1
                                       /\ UNCHANGED <<w, pc>>
                                  ELSE /\ w' = w + 1 /\ attempt' = 0
                                       /\ pc' = AfterWorker(w + 1, Len(workers))
                       /\ UNCHANGED exception
    /\ UNCHANGED <<profit_call, program, cfg, population, environments, workers, employer, i,
                   total_profits, average_wages, updates, calls>>

\* End of one iteration: world.update(), then the two series get their entry
FinishTick ==
    /\ pc = "update"
    /\ LET u == World_update(program, environments, actors)
       IN  /\ environments' = u.environments
           /\ actors' = u.actors
    /\ updates' = updates + 1
    /\ total_profits' = Append(total_profits, sim_profit)
    /\ average_wages' = Append(average_wages,
                               IF wage_count > 0 THEN wage_sum \div wage_count ELSE 0)
    /\ i' = i + 1
    /\ pc' = IF i + 1 < cfg.sim_count THEN "tick" ELSE "return"
    /\ UNCHANGED <<profit_call, program, cfg, population, workers, employer, w, attempt,
                   sim_profit, wage_sum, wage_count, results, exception,
                   last_call, calls>>

\* The function returns its text and the plot of the two series
Return ==
    /\ pc = "return"
    /\ pc' = "done"
    /\ UNCHANGED <<profit_call, program, cfg, population, environments, actors, workers, employer,
                   i, w, attempt, sim_profit, wage_sum, wage_count, total_profits,
                   average_wages, results, exception, updates, last_call, calls>>

-----------------------------------------------------------------------------
(* Direct calls on the classes *)

ManifestationTypes == {"competition_rise", "demand_shock"}
ActionTypes == {"negotiate", "rest"}

CallNegotiateWage ==
    /\ pc = "Worker"
    /\ calls < max_attempts + MaxCalls
    /\ LET r == NegotiateWage(program, actors[2], population)
       IN  /\ actors' = [actors EXCEPT ![2] = r.self]
           /\ last_call' = [self |-> 2, before |-> actors[2].negotiation_attempts,
                            ret |-> r.ret]
    /\ calls' = calls + 1
    /\ UNCHANGED <<profit_call, program, pc, cfg, population, environments, workers, employer,
                   i, w, attempt, sim_profit, wage_sum, wage_count, total_profits,
                   average_wages, results, exception, updates>>

CallManifest ==
    /\ pc = "Environment"
    /\ calls < MaxCalls
    /\ \E self \in DOMAIN environments, t \in ManifestationTypes,
          target \in {0} \cup DOMAIN environments :
          environments' = manifest(environments, self, t, target)
    /\ calls' = calls + 1
    /\ UNCHANGED <<profit_call, program, pc, cfg, population, actors, workers, employer,
                   i, w, attempt, sim_profit, wage_sum, wage_count, total_profits,
                   average_wages, results, exception, updates, last_call>>

CallPerformAction ==
    /\ pc = "Actor"
    /\ calls < MaxCalls
    /\ \E self \in DOMAIN actors, t \in ActionTypes, target \in {0} \cup DOMAIN actors :
          actors' = perform_action(actors, self, t, target)
    /\ calls' = calls + 1
    /\ UNCHANGED <<profit_call, program, pc, cfg, population, environments, workers, employer,
                   i, w, attempt, sim_profit, wage_sum, wage_count, total_profits,
                   average_wages, results, exception, updates, last_call>>

\* arguments of the direct calculate_profit calls
ProfitWages == {-9000, 3000000, 3150000}
Headcounts == {1, 133}

\* employer.calculate_profit(wage, num_workers): computes and returns, assigns nothing
CallCalculateProfit ==
    /\ pc = "Employer"
    /\ calls < MaxCalls
    /\ \E wage \in ProfitWages, num_workers \in Headcounts :
          profit_call' = [wage |-> wage, num_workers |-> num_workers,
                          ret |-> calculate_profit(environments, wage, num_workers)]
    /\ calls' = calls + 1
    /\ UNCHANGED <<program, pc, cfg, population, environments, actors, workers,
                   employer, i, w, attempt, sim_profit, wage_sum, wage_count,
                   total_profits, average_wages, results, exception, updates,
                   last_call>>

-----------------------------------------------------------------------------

Next ==
    \/ StartTick
    \/ SkipEmployed
    \/ NegotiationAttempt
    \/ FinishTick
    \/ Return
    \/ CallNegotiateWage
    \/ CallManifest
    \/ CallPerformAction
    \/ CallCalculateProfit

Spec == Init /\ [][Next]_vars

-----------------------------------------------------------------------------
(* Properties *)

IsWorker(a) == actors[a].class = "Worker"
Employed(a) == Get(actors[a].properties, "employed", FALSE)
Last(s) == s[Len(s)]

\* the entries of `results` of tick t that ended in a hire
AcceptedIn(t) == SelectSeq(results, LAMBDA e : e.tick = t /\ e.accepted)

RECURSIVE SumProfit(_)
SumProfit(s) == IF s = <<>> THEN 0 ELSE Head(s).profit + SumProfit(Tail(s))

RECURSIVE SumWage(_)
SumWage(s) == IF s = <<>> THEN 0 ELSE Head(s).wage + SumWage(Tail(s))

\* a step that appended an attempt's entry to `results`
Decided == Len(results') = Len(results) + 1

\* C1: every Worker's negotiation_attempts is at most max_attempts, and a
\* negotiate_wage call made with the counter at or above max_attempts returns
\* 0 and leaves the counter as it was.
C1_AttemptsBounded ==
    /\ \A a \in DOMAIN actors :
          IsWorker(a) => actors[a].negotiation_attempts <= actors[a].max_attempts
    /\ (last_call.self # 0 /\ last_call.before >= max_attempts) =>
          /\ last_call.ret = 0
          /\ actors[last_call.self].negotiation_attempts = last_call.before

\* C1 witness: negotiate_wage has been called on an exhausted Worker
C1_Witness ==
    /\ last_call.self # 0
    /\ last_call.before = max_attempts
    /\ last_call.ret = 0

\* C2 as stated: when the run has returned, the Workers registered in the
\* World with employed = True number at most worker_count.
C2_EmployedAtMostWorkerCount ==
    pc = "done" => EmployedCount(actors) <= cfg.worker_count

\* C3: a Worker that was hired stays employed, and after the attempt that
\* hired it no negotiate_wage call and no accept/reject decision is made for it.
C3_HiredIsLeftAlone ==
    \A k \in DOMAIN results :
        results[k].accepted =>
            /\ Employed(results[k].worker)
            /\ \A l \in DOMAIN results : l > k => results[l].worker # results[k].worker
            /\ last_call.self = results[k].worker =>
                  (k = Len(results) /\ exception = "none")

\* C3 witness: a Worker hired in tick 1, and a decision made for another
\* Worker in tick 2 of the same run of test.py
C3_Witness ==
    /\ program = "test"
    /\ \E k, l \in DOMAIN results :
          /\ results[k].accepted /\ results[k].tick = 1
          /\ results[l].tick = 2

\* C4 as stated: a Worker with max_attempts rejected proposals is not employed.
C4_ExhaustedStaysUnemployed ==
    \A a \in DOMAIN actors :
        (/\ IsWorker(a)
         /\ Cardinality({k \in DOMAIN results :
                            results[k].worker = a /\ ~results[k].accepted})
               >= max_attempts)
        => ~Employed(a)

\* C5 as stated: of two proposals of the same Worker, the later one is
\* strictly lower than the earlier one.
C5_ProposalsStrictlyDecrease ==
    \A k, l \in DOMAIN results :
        (k < l /\ results[k].worker = results[l].worker) =>
            results[l].wage < results[k].wage

\* C6 as stated: a manifest call of another type than competition_rise, on an
\* Environment that has recorded competition_rise, changes no Environment's demand.
C6_UnrelatedManifestNoSpillover ==
    [][\A e \in DOMAIN environments :
          (/\ Len(environments'[e].manifestations)
                 = Len(environments[e].manifestations) + 1
           /\ Last(environments'[e].manifestations) # "competition_rise"
           /\ "competition_rise" \in Range(environments[e].manifestations))
          => \A t \in DOMAIN environments :
                environments'[t].properties["demand"]
                   = environments[t].properties["demand"]]_vars

\* C7 as stated: perform_action with another type than "negotiate" changes no
\* property of any actor, whatever the actor's earlier actions and the target.
C7_OtherActionNoEffect ==
    [][\A a \in DOMAIN actors :
          (/\ Len(actors'[a].actions) = Len(actors[a].actions) + 1
           /\ Last(actors'[a].actions) # "negotiate")
          => \A b \in DOMAIN actors : actors'[b].properties = actors[b].properties]_vars

C9_NonPositiveWageRejected ==
    /\ exception = "none"
    /\ \A k \in DOMAIN results : results[k].wage <= 0 => ~results[k].accepted

\* C10 as stated: a returned run of N >= 0 ticks has N entries in each series;
\* entry t holds the sum of the profits accepted in tick t and the mean of
\* the wages accepted in tick t, 0 when tick t hired nobody.
C10_OneEntryPerTick ==
    (pc = "done" /\ cfg.sim_count >= 0) =>
        /\ Len(total_profits) = cfg.sim_count
        /\ Len(average_wages) = cfg.sim_count
        /\ \A t \in 1..cfg.sim_count :
              /\ t \in DOMAIN total_profits
              /\ t \in DOMAIN average_wages
              /\ total_profits[t] = SumProfit(AcceptedIn(t))
              /\ average_wages[t] =
                    IF AcceptedIn(t) = <<>> THEN 0
                    ELSE SumWage(AcceptedIn(t)) \div Len(AcceptedIn(t))

\* the state right after a World.update: the tick is complete
AfterUpdate ==
    /\ updates > 0
    /\ exception = "none"
    /\ pc \in {"tick", "return", "done"}

\* C11: right after any World.update, every actor that holds both stress and
\* efficiency, with a non-negative stress, has efficiency
\* = max(0.5, 1.0 - 0.01 * stress), so that efficiency lies in [0.5, 1.0].
C11_EfficiencyFromStress ==
    AfterUpdate =>
        \A a \in DOMAIN actors :
            LET p == actors[a].properties
            IN  (/\ "stress" \in DOMAIN p /\ "efficiency" \in DOMAIN p
                 /\ p["stress"] >= 0)
                => /\ p["efficiency"] =
                         IF EfficiencyFull - p["stress"] > EfficiencyFloor
                         THEN EfficiencyFull - p["stress"] ELSE EfficiencyFloor
                   /\ EfficiencyFloor <= p["efficiency"]
                   /\ p["efficiency"] <= EfficiencyFull

\* C11 witness: after an update some Worker's stress is above 50, where
\* 1.0 - 0.01 * stress is below the floor, and another actor's is below 50
C11_Witness ==
    /\ AfterUpdate
    /\ \E a, b \in DOMAIN actors :
          /\ IsWorker(a) /\ actors[a].properties["stress"] > 50
          /\ actors[a].properties["efficiency"] = EfficiencyFloor
          /\ IsWorker(b) /\ actors[b].properties["stress"] \in 1..49
          /\ actors[b].properties["efficiency"] > EfficiencyFloor

\* a configuration with a negative tick count or without workers
Malformed == cfg.sim_count < 0 \/ cfg.worker_count = 0

\* C12 as stated: a run configured with a negative tick count or with zero
\* workers is refused as a configuration error: it executes no tick (no
\* manifestation, no World.update) and does not return as a completed run.
C12_MalformedConfigRefused ==
    Malformed =>
        /\ updates = 0
        /\ environments[1].manifestations = <<>>
        /\ ~(pc = "done" /\ exception = "none")

\* C13 as stated: every Actor and Environment is registered before the first
\* tick, and no step of the tick loop makes the World's actor collection or
\* environment collection grow or shrink.
C13_CollectionsFixedInLoop ==
    [][/\ Len(actors') = Len(actors)
       /\ Len(environments') = Len(environments)]_vars

\* C14 as stated: a negotiate_wage call made with negotiation_attempts below
\* max_attempts leaves the Worker's counter exactly 1 higher, whether or not
\* the proposal is then accepted.
C14_CallCountsOnce ==
    (last_call.self # 0 /\ last_call.before < max_attempts) =>
        actors[last_call.self].negotiation_attempts = last_call.before + 1

\* the attempts logged so far follow the protocol: hired exactly when the
\* profit is above zero (test.py: and the efficiency at least 0.6); a hired
\* Worker is employed, has its work designation and proposes no more in that
\* tick; a rejection below max_attempts is followed by the Worker's next
\* attempt of the same tick; no Worker has more than max_attempts in a tick
ProtocolFollowed ==
    \A k \in DOMAIN results :
        LET e == results[k]
        IN  /\ e.accepted <=>
                  (/\ e.profit > 0
                   /\ program = "test" => e.efficiency >= EfficiencyThreshold)
            /\ e.accepted =>
                  /\ Employed(e.worker)
                  /\ actors[e.worker].work = "production"
                  /\ \A l \in DOMAIN results :
                        l > k => ~(results[l].worker = e.worker /\ results[l].tick = e.tick)
            /\ e.attempt <= max_attempts
            /\ (~e.accepted /\ e.attempt < max_attempts) =>
                  IF k < Len(results)
                  THEN /\ results[k + 1].worker = e.worker
                       /\ results[k + 1].tick = e.tick
                       /\ results[k + 1].attempt = e.attempt + 1
                  ELSE /\ pc = "negotiate"
                       /\ workers[w] = e.worker
                       /\ attempt = e.attempt

\* C15 as stated: every attempt ends in a hire or in a rejection, according to
\* the profit being above zero (strict variant: and efficiency >= 0.6); a hire
\* marks the Worker employed with a work designation and ends its proposals
\* for the tick; after a rejection the next attempt follows, up to
\* max_attempts proposals per Worker per tick.
C15_EveryAttemptDecided ==
    /\ exception = "none"
    /\ ProtocolFollowed

\* C16 as stated: every tick's World.update, and no other step, adds
\* 1000 x (number of employed Workers) to the primary Environment's supply and
\* multiplies its demand by 0.99, once; the step changes no other
\* Environment's properties.
C16_FeedbackOncePerTick ==
    [][/\ updates' # updates =>
            /\ environments'[1].properties["supply"] =
                  environments[1].properties["supply"]
                     + SupplyPerWorker * EmployedCount(actors)
            /\ environments'[1].properties["demand"] =
                  (environments[1].properties["demand"] \div 100) * 99
            /\ \A e \in DOMAIN environments :
                  e # 1 => environments'[e].properties = environments[e].properties
       /\ updates' = updates =>
            environments'[1].properties["supply"] = environments[1].properties["supply"]]_vars

\* environment e as a competition_rise manifestation with target t leaves it
RisenWithTarget(e, t, x) ==
    LET risen == IF x = e
                 THEN [environments[x].properties EXCEPT
                          !["competition"] = @ + CompetitionRise]
                 ELSE environments[x].properties
    IN  IF x = t THEN [risen EXCEPT !["demand"] = (@ \div 100) * 95] ELSE risen

\* C17: a manifest("competition_rise", target) call on an Environment raises
\* that Environment's competition by exactly 0.1 and multiplies the target's
\* demand by exactly 0.95, once, and changes no other property of any
\* Environment; the call of every tick is made on env1 with target env2.
C17_CompetitionRiseEffect ==
    [][\A e \in DOMAIN environments :
          (/\ Len(environments'[e].manifestations)
                 = Len(environments[e].manifestations) + 1
           /\ Last(environments'[e].manifestations) = "competition_rise")
          => /\ \E t \in {0} \cup DOMAIN environments :
                   /\ pc = "tick" => (e = 1 /\ t = 2)
                   /\ \A x \in DOMAIN environments :
                         environments'[x].properties = RisenWithTarget(e, t, x)
             /\ environments'[e].properties["competition"]
                   = environments[e].properties["competition"] + CompetitionRise]_vars

\* C17 witness: the first tick's competition_rise has raised env1's competition
\* by 0.1 and lowered env2's demand from 900 to 855, all else as constructed
C17_Witness ==
    /\ pc \in {"negotiate", "update"}
    /\ i = 0
    /\ environments[1].manifestations = <<"competition_rise">>
    /\ environments[1].properties =
          [demand |-> 1000 * 1000000, supply |-> 800,
           competition |-> cfg.market_competition + CompetitionRise]
    /\ environments[2].properties =
          [demand |-> 855 * 1000000, supply |-> 850, competition |-> 3]

\* n x (0.9 x 3,500,000 x (1 + competition) - wage), competition in tenths
ExpectedProfit(wage, n, comp) ==
    n * (((ProductivityPerWorker \div 100) * 9) * (10 + comp) - wage)

\* C18: calculate_profit returns a value determined by its wage, its
\* num_workers and the competition of the World's first Environment alone,
\* and a call changes nothing of the World, its Environments and its Actors:
\* under direct call every variable but the record of the call stays as it
\* was, and in the drivers the profit logged for an attempt is that value.
C18_ProfitIsPure ==
    [][/\ (pc = "Employer" /\ calls' # calls) =>
            /\ profit_call'.ret =
                  ExpectedProfit(profit_call'.wage, profit_call'.num_workers,
                                 environments[1].properties["competition"])
            /\ UNCHANGED <<population, environments, actors, workers, employer,
                           results, exception, updates, last_call>>
       /\ Decided =>
            /\ Last(results').profit =
                  ExpectedProfit(Last(results').wage,
                                 IF program = "hwang"
                                 THEN Last(results').optimal_workers ELSE 1,
                                 environments[1].properties["competition"])
            /\ environments' = environments]_vars

\* C18 witness: two direct calls have been made, the latter for 133 workers
\* at a wage of 3,000,000
C18_Witness ==
    /\ pc = "Employer"
    /\ calls >= 2
    /\ profit_call.wage = 3000000
    /\ profit_call.num_workers = 133
    /\ profit_call.ret > 0

\* C19: every actor registered by add_actor has the World it was registered
\* in as its space, in every later state, a Worker also after it was hired
\* (hwang.py assigns worker.space = employer.space on a hire).
C19_BackReferenceKept ==
    \A a \in DOMAIN actors : actors[a].space = "world"

\* C19 witness: hwang.py has hired a Worker, whose space is still the World
C19_Witness ==
    /\ program = "hwang"
    /\ \E k \in DOMAIN results :
          /\ results[k].accepted
          /\ Employed(results[k].worker)
          /\ actors[results[k].worker].space = "world"

\* the Environments whose competition is strictly above 0.7
Stressing(envs) ==
    {e \in DOMAIN envs : envs[e].properties["competition"] > StressThreshold}

RECURSIVE StressGain(_, _)
\* the sum of competition x 10 over the Environments in the set es
StressGain(envs, es) ==
    IF es = {} THEN 0
    ELSE LET e == CHOOSE x \in es : TRUE
         IN  (envs[e].properties["competition"] * StressFactor) \div 10
                + StressGain(envs, es \ {e})

\* C20: in every World.update each Environment whose competition is strictly
\* above 0.7 adds competition x 10 to each actor's stress, an absent stress
\* counting as 0; an Environment at or below 0.7 adds nothing, and when none
\* is above 0.7 the actor's properties stay as they were (but for the
\* efficiency, which the same update recomputes from the stress).
C20_StressAboveThreshold ==
    [][updates' # updates =>
          \A a \in DOMAIN actors :
              LET p == actors[a].properties
                  q == actors'[a].properties
                  es == Stressing(environments)
              IN  /\ \A key \in DOMAIN p \ {"stress", "efficiency"} :
                        key \in DOMAIN q /\ q[key] = p[key]
                  /\ "efficiency" \in DOMAIN q <=> "efficiency" \in DOMAIN p
                  /\ IF es = {}
                     THEN /\ DOMAIN q = DOMAIN p
                          /\ "stress" \in DOMAIN p => q["stress"] = p["stress"]
                     ELSE /\ DOMAIN q = DOMAIN p \cup {"stress"}
                          /\ q["stress"] = Get(p, "stress", 0)
                                              + StressGain(environments, es)]_vars

\* C20 witness: a run started at competition 0.5 has made three updates, at
\* 0.6, 0.7 and 0.8; an Employer, constructed without stress, holds stress 8
C20_Witness ==
    /\ cfg.market_competition = 5
    /\ updates = 3
    /\ environments[1].properties["competition"] = 8
    /\ \E a \in DOMAIN actors :
          /\ actors[a].class = "Employer"
          /\ "stress" \in DOMAIN actors[a].properties
          /\ actors[a].properties["stress"] = 8

\* the population term of the negotiate_wage in effect: ln(population + 1) x 1000
\* in hwang.py, removed in test.py
PopulationFactor == IF program = "test" THEN 0 ELSE LogTimes1000(population)

\* previous_wage + distance x 1000 + age_factor + population_factor of actor a
UndiscountedWage(a) ==
    LET p == actors[a].properties
    IN  p["previous_wage"] + p["distance"] * DistanceWage
           + (IF p["age"] < AgeLimit THEN (p["age"] - AgeLimit) * AgeWage ELSE 0)
           + PopulationFactor

\* the Worker of the scenario: previous_wage 3,000,000, age 25, distance 5.0
ScenarioWorker(a) ==
    /\ IsWorker(a)
    /\ actors[a].properties["previous_wage"] = 3000000
    /\ actors[a].properties["age"] = 25
    /\ actors[a].properties["distance"] = 500

\* a run of 1 tick and 1 worker configured with competition 0.5
ScenarioRun ==
    /\ pc \in {"negotiate", "update", "return", "done"}
    /\ cfg.market_competition = 5
    /\ cfg.sim_count = 1
    /\ cfg.worker_count = 1

\* C21: the proposal of a Worker whose negotiation_attempts was 0 is
\* previous_wage + distance x 1000 + age_factor + population_factor without
\* discount, age_factor being (age - 30) x 1000 below 30 and 0 otherwise; and
\* in a 1-tick, 1-worker run configured with competition 0.5 the attempt of
\* the Worker with previous_wage 3,000,000, age 25, distance 5.0 is accepted
\* exactly when the profit formula at that wage and competition 0.5 is above 0.
C21_FirstProposal ==
    /\ (last_call.self # 0 /\ last_call.before = 0) =>
          last_call.ret = UndiscountedWage(last_call.self)
    /\ \A k \in DOMAIN results :
          results[k].attempt = 1 => results[k].wage = UndiscountedWage(results[k].worker)
    /\ (ScenarioRun /\ results # <<>> /\ ScenarioWorker(results[1].worker)) =>
          /\ results[1].wage = 3000000 + 500 * DistanceWage - 5 * AgeWage + PopulationFactor
          /\ results[1].accepted <=> ExpectedProfit(results[1].wage, 1, 5) > 0

\* C21 witness: the scenario has run in test.py, the first proposal being
\* 3,000,000 + 5,000 - 5,000, and it was accepted
C21_Witness ==
    /\ ScenarioRun
    /\ results # <<>>
    /\ ScenarioWorker(results[1].worker)
    /\ results[1].wage = 3000000
    /\ results[1].accepted

\* a step in which the Employer of the tick hired a Worker
Hires == Decided /\ Last(results').accepted

\* C22: a hire raises the hired Worker's stress by exactly 5, however many
\* "negotiate" entries the Employer's action log holds already, and changes no
\* property of the Employer or of any other Worker; of the hired Worker's
\* other properties only `employed` changes, set by the driver.
C22_HireAddsFiveStress ==
    [][Hires =>
          LET h == Last(results').worker
          IN  /\ actors'[h].properties["stress"]
                    = actors[h].properties["stress"] + StressPerNegotiation
              /\ \A key \in DOMAIN actors[h].properties \ {"stress", "employed"} :
                    actors'[h].properties[key] = actors[h].properties[key]
              /\ DOMAIN actors'[h].properties = DOMAIN actors[h].properties
              /\ \A b \in DOMAIN actors :
                    b # h => actors'[b].properties = actors[b].properties]_vars

\* C22 witness: the Employer of test.py has hired its second Worker of the
\* first tick, with one "negotiate" already in its log; the Worker's stress is 5
C22_Witness ==
    /\ program = "test"
    /\ updates = 0
    /\ actors[employer].actions = <<"negotiate", "negotiate">>
    /\ results # <<>>
    /\ Last(results).accepted
    /\ actors[Last(results).worker].properties["stress"] = 5

\* wage < 3,150,000 x (1 + competition), competition in tenths
BelowBreakEven(wage, comp) ==
    wage < ((ProductivityPerWorker \div 100) * 9) * (10 + comp)

InDriver == pc \in {"tick", "negotiate", "update", "return", "done", "raised"}

\* C24: in the negotiation loop of either driver negotiate_wage is only
\* called on a Worker whose negotiation_attempts is below max_attempts, so no
\* call of a run takes the exhausted branch that returns the sentinel 0.
C24_NeverCalledExhausted ==
    (InDriver /\ last_call.self # 0) => last_call.before < max_attempts

\* C24 witness: hwang.py has made the fifth call on one Worker, after four
\* rejections, with the counter at max_attempts - 1
C24_Witness ==
    /\ InDriver
    /\ program = "hwang"
    /\ last_call.self # 0
    /\ last_call.before = max_attempts - 1
    /\ actors[last_call.self].negotiation_attempts = max_attempts

\* C25: no step lowers the stress of an actor (an absent stress counting as
\* 0), the competition never being negative; and the efficiency a World.update
\* leaves to a Worker is at most the efficiency the Worker had before it,
\* which is the one the previous update left (1.0 before the first).
C25_StressNeverDecreases ==
    [][/\ \A e \in DOMAIN environments : environments[e].properties["competition"] >= 0
       /\ \A a \in DOMAIN actors :
             /\ Get(actors'[a].properties, "stress", 0)
                   >= Get(actors[a].properties, "stress", 0)
             /\ IsWorker(a) =>
                   /\ actors'[a].properties["efficiency"]
                         <= actors[a].properties["efficiency"]
                   /\ updates' = updates =>
                         actors'[a].properties["efficiency"]
                            = actors[a].properties["efficiency"]]_vars

\* C25 witness: after the second update of a run a Worker, hired in between,
\* has a stress of at least 8 + 5 + 9 and an efficiency lowered accordingly
C25_Witness ==
    /\ AfterUpdate
    /\ updates = 2
    /\ \E a \in DOMAIN actors :
          /\ IsWorker(a) /\ Employed(a)
          /\ actors[a].properties["stress"] >= 22
          /\ actors[a].properties["efficiency"] <= 78

\* Worker a is unemployed with an efficiency below 0.6
Unfit(a) ==
    /\ IsWorker(a)
    /\ ~Employed(a)
    /\ actors[a].properties["efficiency"] < EfficiencyThreshold

\* C26: in test.py's run_simulation_with_plot an unemployed Worker whose
\* efficiency is below 0.6 stays unemployed with an efficiency below 0.6 in
\* every later state, so it is hired neither in the tick that begins so nor in
\* any later tick, whatever the profit of its proposals; and no attempt logged
\* with an efficiency below 0.6 is a hire.
C26_UnfitNeverHired ==
    [][program = "test" =>
          /\ \A a \in DOMAIN actors :
                Unfit(a) => /\ ~Get(actors'[a].properties, "employed", FALSE)
                            /\ actors'[a].properties["efficiency"] < EfficiencyThreshold
          /\ Decided =>
                (Last(results').efficiency < EfficiencyThreshold
                    => ~Last(results').accepted)]_vars

\* C26 witness: test.py has rejected a proposal of positive profit from a
\* Worker whose efficiency was below 0.6, and the Worker is unemployed
C26_Witness ==
    /\ program = "test"
    /\ \E k \in DOMAIN results :
          /\ results[k].efficiency < EfficiencyThreshold
          /\ results[k].profit > 0
          /\ ~results[k].accepted
          /\ Unfit(results[k].worker)

=============================================================================
